---------------------------- MODULE Spec2Model ----------------------------
(***************************************************************************)
(* A model of the MultiRole-Chatbot backend: the HTTP handlers of          *)
(* backend/main.py (upload, chats, chat, history, delete) over the SQLite  *)
(* table chat_histories, the documents directory and the ChromaDB client,  *)
(* and the ingestion and query pipelines of backend/rag_handler.py.        *)
(*                                                                         *)
(* Strings whose characters the code inspects (extracted text, answers,    *)
(* generated lines) are sequences of one-character strings.  Scores are    *)
(* integers in hundredths (0.2 is 20, 0.1 is 10).                          *)
(***************************************************************************)
EXTENDS Integers, Sequences, FiniteSets, TLC

VARIABLES
    initialized,     \* how many of the seven module-level clients were set up
    documents,       \* the documents directory: saved path -> file content
    collections,     \* the ChromaDB store: collection name -> its records
    chat_histories,  \* the SQLite table, rows in rowid order
    uuids,           \* how many uuid4() values have been drawn
    nreq,            \* how many requests have been admitted
    nuploads,        \* how many of them were uploads
    pc,              \* each worker's position in its handler
    op,              \* the handler each worker runs (or ran last)
    loc,             \* each worker's local variables
    resp,            \* the last response each worker sent
    firstRun,        \* history: first completed ingestion per (name, files)
    ingested,        \* history: chat_id -> the chunks its upload's ingestion added
    deleted,         \* history: the chat ids a DELETE request answered 200 for
    q_in,            \* the inputs of the direct pipeline call, once made
    q_out,           \* and what the call did
    chunk_in,        \* the text of the file given to the chunking on its own
    chunk_out        \* and the chunks made of it, once made

vars == <<initialized, documents, collections, chat_histories, uuids, nreq, nuploads,
          nuploads, pc, op, loc, resp, firstRun, ingested, deleted, q_in, q_out,
                   chunk_in, chunk_out>>

-----------------------------------------------------------------------------
(* Bounds of the model.                                                    *)

\* concurrent request handlers (workers)
NumProcs == 2
\* requests admitted in one behaviour
MaxRequests == 3
\* upload requests admitted in one behaviour
MaxUploads == 1
\* files submitted in one upload
MaxFiles == 2
\* lines in the text generated for the sub-question prompt
MaxLines == 2
\* direct calls of the ingestion function in one behaviour
MaxIngestCalls == 3
\* chunks the collection's query returns in the source-order calls
MaxRetrieved == 4
\* runs of equal characters in the page text of a chunked file
MaxRuns == 3

Procs == 1..NumProcs

-----------------------------------------------------------------------------
(* Program constants.                                                      *)

\* text[i:i+1000]
WINDOW == 1000
\* range(0, len(text), 800)
STRIDE == 800
\* classification_pipeline(text[:512])
CLASSIFY_PREFIX == 512
\* result['scores'][0] > 0.2, in hundredths
RELEVANCE_THRESHOLD == 20
\* result['score'] > 0.1, in hundredths
QA_THRESHOLD == 10
\* collection.query(..., n_results=5)
N_RESULTS == 5
\* the seven clients set up in order by the module's try block
NUM_CLIENTS == 7

ROLE_TOPICS ==
    [r \in {"Product Lead", "Tech Lead", "Compliance Lead", "Bank Alliance Lead"} |->
        CASE r = "Product Lead" ->
               <<"business metrics", "user behavior", "product performance">>
          [] r = "Tech Lead" ->
               <<"technical issues", "system performance", "integration status">>
          [] r = "Compliance Lead" ->
               <<"regulatory adherence", "risk factors", "audit trails">>
          [] OTHER ->
               <<"partnership performance", "integration health", "SLA compliance">>]

\* The clients are assigned in this order inside one try block; an exception
\* leaves the later ones None.
qa_pipeline == initialized >= 1
llm_pipeline == initialized >= 2
classification_pipeline == initialized >= 3
ner_pipeline == initialized >= 4
relevance_checker_pipeline == initialized >= 5
embedding_model == initialized >= 6
chroma_client == initialized >= NUM_CLIENTS

-----------------------------------------------------------------------------
(* Strings as sequences of characters.                                     *)

Whitespace == {" ", "\t", "\n", "\r"}

\* s.strip(chars): drop the leading and trailing characters that are in cs
RECURSIVE LStrip(_, _)
LStrip(s, cs) ==
    IF s # <<>> /\ Head(s) \in cs THEN LStrip(Tail(s), cs) ELSE s

RECURSIVE RStrip(_, _)
RStrip(s, cs) ==
    IF s # <<>> /\ s[Len(s)] \in cs THEN RStrip(SubSeq(s, 1, Len(s) - 1), cs) ELSE s

Strip(s, cs) == RStrip(LStrip(s, cs), cs)

\* not s.strip()
IsBlank(s) == \A i \in 1..Len(s) : s[i] \in Whitespace

\* s[i:j] with Python's 0-based, end-exclusive, clamped indices
Slice(s, i, j) ==
    SubSeq(s, i + 1, IF j < Len(s) THEN j ELSE Len(s))

Rep(c, n) == [i \in 1..n |-> c]

RECURSIVE Concat(_)
Concat(ss) == IF ss = <<>> THEN <<>> ELSE Head(ss) \o Concat(Tail(ss))

Digits == <<"1", "2", "3", "4", "5", "6", "7", "8", "9">>

\* f"\n--- Page {page_num} ---\n"
PageMarker(n) ==
    <<"\n", "-", "-", "-", " ", "P", "a", "g", "e", " ", Digits[n],
      " ", "-", "-", "-", "\n">>

-----------------------------------------------------------------------------
(* Uploaded file contents.  A content is named by a key; Pages gives the   *)
(* text of each page of a readable document.                               *)

\* readable documents: key -> the text of each page
Pages(key) ==
    CASE key = "nopages" -> <<>>
      [] key = "short"   -> << <<"R", "e", "v", " ", "2", "0", "%">> >>
      [] key = "long"    -> << Rep("x", 790) >>
      [] OTHER           -> <<>>

Readable == {"nopages", "short", "long"}
Contents == Readable \cup {"corrupt"}

\* lines 94-100: the text of one file, or the exception of fitz.open
ExtractText(content) ==
    IF content \in Readable
    THEN [ok |-> TRUE,
          text |-> Concat([n \in 1..Len(Pages(content)) |->
                              Pages(content)[n] \o PageMarker(n)])]
    ELSE [ok |-> FALSE, text |-> <<>>]

\* line 105 with the overlap added to the window instead of taken off it
ChunkStartsOverlapAdded(text) ==
    LET step == WINDOW + (WINDOW - STRIDE)
        starts == [k \in 1..((Len(text) + step - 1) \div step) |-> (k - 1) * step]
    IN  SelectSeq(starts, LAMBDA i : ~IsBlank(Slice(text, i, i + WINDOW)))

\* line 105: the start offsets of the windows kept
ChunkStarts(text) ==
    LET starts == [k \in 1..((Len(text) + STRIDE - 1) \div STRIDE) |-> (k - 1) * STRIDE]
    IN  SelectSeq(starts, LAMBDA i : ~IsBlank(Slice(text, i, i + WINDOW)))

\* line 105: the chunks, each with the offset i it was cut at
Chunks(text) ==
    LET starts == ChunkStarts(text)
    IN  [c \in 1..Len(starts) |->
            [start |-> starts[c], chunk |-> Slice(text, starts[c], starts[c] + WINDOW)]]

\* line 108: f"doc{doc_id_counter}_chunk{chunk_idx}"
ChunkId(doc_id_counter, chunk_idx) == <<"doc", doc_id_counter, "_chunk", chunk_idx>>


-----------------------------------------------------------------------------
(* Small helpers on functions and sequences.                               *)

Range(s) == {s[i] : i \in 1..Len(s)}

IsPrefix(s, t) == Len(s) <= Len(t) /\ SubSeq(t, 1, Len(s)) = s

\* f with key k set to v (k is added to the domain when new)
Put(f, k, v) == [x \in DOMAIN f \cup {k} |-> IF x = k THEN v ELSE f[x]]

\* f without key k
Drop(f, k) == [x \in DOMAIN f \ {k} |-> f[x]]

Empty == [x \in {} |-> 0]

\* the sequences over S of length lo..hi
SeqsOf(S, lo, hi) == UNION {[1..n -> S] : n \in lo..hi}

-----------------------------------------------------------------------------
(* Inputs of the requests.                                                 *)

\* the role form field: empty, or a role
RoleInputs == {"", "Tech Lead"}

\* an UploadFile: its filename and its bytes
UploadFile(c) == [filename |-> c, content |-> c]

UploadInputs == SeqsOf({UploadFile(c) : c \in Contents}, 1, MaxFiles)

Messages == {"m1", "m2"}

\* labels the document classifier may return
DocTypes == {"financial_report", "invoice"}

\* the classifier model: a fixed function of the text it is given
ClassifierLabel(prefix) ==
    IF "%" \in Range(prefix) THEN "financial_report" ELSE "invoice"

\* line 92-93: os.path.join("documents", f"{uuid.uuid4()}_{file.filename}")
FilePath(uuid, filename) == <<uuid, filename>>

\* line 92: os.path.basename(file_path)
Basename(file_path) == file_path

-----------------------------------------------------------------------------
(* Worker state.                                                           *)

NoResponse == [status |-> 0, body |-> "none"]

Locals ==
    [role            |-> "",
     files           |-> <<>>,     \* the UploadFiles of the request
     saved_files     |-> <<>>,     \* main.py saved_files / rag_handler files
     filenames       |-> <<>>,
     written         |-> {},       \* history: paths this attempt created on disk
     chat_id         |-> 0,        \* chat_id / collection_name
     all_chunks      |-> <<>>,     \* all_chunks, all_metadatas, all_ids zipped
     ingest          |-> "none",   \* none, running, returned, raised
     extracted       |-> FALSE,    \* history: the extraction loop ran to its end
     exc             |-> "",       \* the exception raised, if any
     message         |-> "",
     current_history |-> <<>>,
     ready           |-> FALSE,    \* history: at the SELECT, the ingestion had
                                   \* returned and its collection was complete
     after_delete    |-> FALSE,    \* history: at the SELECT, a DELETE of this id
                                   \* had already answered 200
     response        |-> NoResponse,
     cleanup_failed  |-> FALSE]    \* history: delete_collection raised

\* the locals are dropped when the handler returns; the history fields stay
Returned(l) ==
    [Locals EXCEPT !.chat_id = l.chat_id, !.files = l.files, !.written = l.written,
                   !.ingest = l.ingest, !.extracted = l.extracted, !.exc = l.exc,
                   !.ready = l.ready, !.after_delete = l.after_delete,
                   !.cleanup_failed = l.cleanup_failed]

HTTPException(status, detail) == [status |-> status, body |-> detail]

\* chat_histories rows: SELECT ... WHERE chat_id = ?
RowsOf(chat_id) == {i \in 1..Len(chat_histories) : chat_histories[i].chat_id = chat_id}

HasRow(chat_id) == RowsOf(chat_id) # {}

RowOf(chat_id) == chat_histories[CHOOSE i \in RowsOf(chat_id) : TRUE]

TypeOK ==
    /\ initialized \in 0..NUM_CLIENTS
    /\ uuids \in Nat
    /\ nreq \in 0..MaxRequests + MaxIngestCalls
    /\ pc \in [Procs -> {"idle", "save", "process", "delete_old", "create", "encode",
                         "add", "chat_id", "insert", "except", "query", "update",
                         "delete_collection"}]

-----------------------------------------------------------------------------
(* rag_handler.process_documents_and_create_collection                     *)

\* lines 71-74: the label of the first 512 characters
classify_document(text) == ClassifierLabel(Slice(text, 0, CLASSIFY_PREFIX))

\* lines 90-116: the loop over the files, from file k on.  raises[k] says that
\* the classifier call for file k raises.  Returns the exception raised or
\* the chunks.
RECURSIVE ProcessFiles(_, _, _, _)
ProcessFiles(files, raises, k, acc) ==
    IF k > Len(files) THEN [exc |-> "", chunks |-> acc]
    ELSE
      LET file_path == files[k]
          r == IF file_path \in DOMAIN documents
               THEN ExtractText(documents[file_path])
               ELSE [ok |-> FALSE, text |-> <<>>]
      IN  IF ~r.ok THEN [exc |-> "Could not read the PDF file", chunks |-> <<>>]
          ELSE IF IsBlank(r.text) THEN ProcessFiles(files, raises, k + 1, acc)
          ELSE IF raises[k]
               THEN [exc |-> "classification failed", chunks |-> <<>>]
          ELSE
            LET starts == ChunkStarts(r.text)
                chunks == [c \in 1..Len(starts) |->
                             [id          |-> ChunkId(k, c),
                              source_file |-> Basename(file_path),
                              doc_type    |-> classify_document(r.text),
                              doc         |-> documents[file_path],
                              start       |-> starts[c]]]
            IN  ProcessFiles(files, raises, k + 1, acc \o chunks)

\* the check of line 118 left out
NoChunksUnchecked(all_chunks) == FALSE

\* line 118: if not all_chunks
NoChunks(all_chunks) == all_chunks = <<>>

\* the caller's except branch inserting the session all the same
AfterIngestSwallowed(p, outcome) ==
    IF op[p] = "upload" THEN "insert" ELSE "idle"

\* where the function's caller continues
AfterIngest(p, outcome) ==
    IF op[p] = "upload"
    THEN (IF outcome = "returned" THEN "insert" ELSE "except")
    ELSE "idle"

Raise(p, msg) ==
    /\ loc' = [loc EXCEPT ![p].ingest = "raised", ![p].exc = msg]
    /\ pc' = [pc EXCEPT ![p] = AfterIngest(p, "raised")]

\* lines 86-118: the service check, the loop over the files, the no-chunks check
process_files(p) ==
    /\ pc[p] = "process"
    /\ UNCHANGED <<initialized, documents, collections, chat_histories, uuids, nreq, nuploads,
                   op, resp, firstRun, ingested, deleted, q_in, q_out,
                   chunk_in, chunk_out>>
    /\ IF ~(chroma_client /\ embedding_model)
       THEN Raise(p, "Core services not initialized.")
       ELSE \E raises \in [1..Len(loc[p].saved_files) -> BOOLEAN] :
              LET r == ProcessFiles(loc[p].saved_files, raises, 1, <<>>)
              IN  IF r.exc # "" THEN Raise(p, r.exc)
                  ELSE IF NoChunks(r.chunks)
                  THEN /\ loc' = [loc EXCEPT
                             ![p].ingest = "raised",
                             ![p].extracted = TRUE,
                             ![p].exc = "No text could be extracted from the provided documents."]
                       /\ pc' = [pc EXCEPT ![p] = AfterIngest(p, "raised")]
                  ELSE /\ loc' = [loc EXCEPT ![p].all_chunks = r.chunks,
                                             ![p].extracted = TRUE]
                       /\ pc' = [pc EXCEPT ![p] = "delete_old"]

\* lines 119-123: delete the collection of that name if it is listed; any
\* exception of the listing or of the delete is logged and swallowed
delete_old_collection(p) ==
    /\ pc[p] = "delete_old"
    /\ \E fails \in BOOLEAN :
         collections' = IF loc[p].chat_id \in DOMAIN collections /\ ~fails
                        THEN Drop(collections, loc[p].chat_id)
                        ELSE collections
    /\ pc' = [pc EXCEPT ![p] = "create"]
    /\ UNCHANGED <<initialized, documents, chat_histories, uuids, nreq, nuploads, op, loc,
                   resp, firstRun, ingested, deleted, q_in, q_out,
                   chunk_in, chunk_out>>

\* create_collection called with get_or_create=True
get_or_create_collection(p) ==
    /\ pc[p] = "create"
    /\ UNCHANGED <<initialized, documents, chat_histories, uuids, nreq, nuploads, op,
                   resp, firstRun, ingested, deleted, q_in, q_out,
                   chunk_in, chunk_out>>
    /\ \E fails \in BOOLEAN :
         IF fails
         THEN /\ Raise(p, "create_collection failed")
              /\ UNCHANGED collections
         ELSE /\ collections' =
                    IF loc[p].chat_id \in DOMAIN collections THEN collections
                    ELSE Put(collections, loc[p].chat_id, <<>>)
              /\ pc' = [pc EXCEPT ![p] = "encode"]
              /\ UNCHANGED loc

\* line 125: create_collection raises when the name exists (or the store fails)
create_collection(p) ==
    /\ pc[p] = "create"
    /\ UNCHANGED <<initialized, documents, chat_histories, uuids, nreq, nuploads, op, resp,
                   firstRun, ingested, deleted, q_in, q_out,
                   chunk_in, chunk_out>>
    /\ \E fails \in BOOLEAN :
         IF fails \/ loc[p].chat_id \in DOMAIN collections
         THEN /\ Raise(p, "create_collection failed")
              /\ UNCHANGED collections
         ELSE /\ collections' = Put(collections, loc[p].chat_id, <<>>)
              /\ pc' = [pc EXCEPT ![p] = "encode"]
              /\ UNCHANGED loc

\* line 126: embedding_model.encode(all_chunks)
encode(p) ==
    /\ pc[p] = "encode"
    /\ UNCHANGED <<initialized, documents, collections, chat_histories, uuids, nreq, nuploads,
                   op, resp, firstRun, ingested, deleted, q_in, q_out,
                   chunk_in, chunk_out>>
    /\ \E fails \in BOOLEAN :
         IF fails THEN Raise(p, "encode failed")
         ELSE /\ pc' = [pc EXCEPT ![p] = "add"]
              /\ UNCHANGED loc

\* collection.add: one batch; a record whose id the collection already holds
\* is not added again
AddBatch(records, batch) ==
    records \o SelectSeq(batch, LAMBDA c : \A i \in 1..Len(records) : records[i].id # c.id)

\* line 128: collection.add(...), then the function returns
add(p) ==
    /\ pc[p] = "add"
    /\ UNCHANGED <<initialized, documents, chat_histories, uuids, nreq, nuploads, op, resp,
                   deleted, q_in, q_out,
                   chunk_in, chunk_out>>
    /\ \E fails \in BOOLEAN :
         IF fails \/ loc[p].chat_id \notin DOMAIN collections
         THEN /\ Raise(p, "add failed")
              /\ UNCHANGED <<collections, firstRun, ingested>>
         ELSE LET name == loc[p].chat_id
                  records == AddBatch(collections[name], loc[p].all_chunks)
                  key == <<name, loc[p].saved_files>>
              IN  /\ collections' = Put(collections, name, records)
                  /\ loc' = [loc EXCEPT ![p].ingest = "returned"]
                  /\ pc' = [pc EXCEPT ![p] = AfterIngest(p, "returned")]
                  /\ firstRun' =
                       IF op[p] # "ingest" THEN firstRun
                       ELSE IF key \in DOMAIN firstRun
                       THEN [firstRun EXCEPT ![key].runs = @ + 1]
                       ELSE Put(firstRun, key, [records |-> records, runs |-> 1])
                  /\ ingested' = IF op[p] = "upload" THEN Put(ingested, name, records)
                                 ELSE ingested

process_documents_and_create_collection(p) ==
    \/ process_files(p)
    \/ delete_old_collection(p)
    \/ create_collection(p)
    \/ encode(p)
    \/ add(p)


-----------------------------------------------------------------------------
(* rag_handler.query_rag_pipeline                                          *)

\* clean_answer = result['answer'].strip(" ,.;:-")
PUNCT == {" ", ",", ".", ";", ":", "-"}

\* text.split(sep)
RECURSIVE SplitFrom(_, _, _)
SplitFrom(s, sep, cur) ==
    IF s = <<>> THEN <<cur>>
    ELSE IF Head(s) = sep THEN <<cur>> \o SplitFrom(Tail(s), sep, <<>>)
    ELSE SplitFrom(Tail(s), sep, Append(cur, Head(s)))

Split(s, sep) == SplitFrom(s, sep, <<>>)

\* line 160: [q.strip() for q in text.split('\n') if q.strip() and '?' in q]
SubQuestions(generated_text) ==
    LET lines == Split(generated_text, "\n")
        kept == SelectSeq(lines, LAMBDA q : Strip(q, Whitespace) # <<>> /\ "?" \in Range(q))
    IN  [i \in 1..Len(kept) |-> Strip(kept[i], Whitespace)]

\* the comparison of line 137 taken as >=
is_query_relevant_at_threshold(role, scores) ==
    IF role \notin DOMAIN ROLE_TOPICS THEN TRUE
    ELSE scores[1] >= RELEVANCE_THRESHOLD

\* lines 131-137.  scores are the scorer's scores, highest first.
is_query_relevant_for_role(role, scores) ==
    IF role \notin DOMAIN ROLE_TOPICS THEN TRUE
    ELSE scores[1] > RELEVANCE_THRESHOLD

\* the answers added to the set untrimmed
ExtractedAnswersUntrimmed(n, qa) ==
    {qa[i].answer : i \in {j \in 1..n : qa[j].score > QA_THRESHOLD}} \ {<<>>}

\* lines 163-168: qa[i] is the extractive answer for probe i of n
ExtractedAnswers(n, qa) ==
    {Strip(qa[i].answer, PUNCT) : i \in {j \in 1..n : qa[j].score > QA_THRESHOLD}} \ {<<>>}

\* the loop of lines 189-194 with the last chunk of a file winning
RECURSIVE UniqueSourcesLastWins(_)
UniqueSourcesLastWins(sources) ==
    IF sources = <<>> THEN <<>>
    ELSE LET source == Head(sources)
             rest == Tail(sources)
         IN  IF \E i \in 1..Len(rest) : rest[i].source_file = source.source_file
             THEN UniqueSourcesLastWins(rest)
             ELSE <<[source_file |-> source.source_file, doc_type |-> source.doc_type]>>
                  \o UniqueSourcesLastWins(rest)

\* lines 189-194
RECURSIVE UniqueSourcesFrom(_, _, _)
UniqueSourcesFrom(sources, unique_sources, seen_files) ==
    IF sources = <<>> THEN unique_sources
    ELSE LET source == Head(sources)
         IN  IF source.source_file \notin seen_files
             THEN UniqueSourcesFrom(Tail(sources),
                      Append(unique_sources, [source_file |-> source.source_file,
                                              doc_type |-> source.doc_type]),
                      seen_files \cup {source.source_file})
             ELSE UniqueSourcesFrom(Tail(sources), unique_sources, seen_files)

UniqueSources(sources) == UniqueSourcesFrom(sources, <<>>, {})

Answer(kind, text) == [kind |-> kind, text |-> text]

\* what a call does: the exception it raises or the dict it returns, and, as
\* history, whether collection.query was called and the set extracted_answers
PipelineResult(exc, answer, sources, queried, quotes) ==
    [exc |-> exc, answer |-> answer, sources |-> sources, queried |-> queried,
     quotes |-> quotes]

\* lines 139-196.  has_collection: get_collection finds the name.  m holds what
\* the collaborators return: scores (relevance scorer), retrieved (the
\* collection's query), generated_text (sub-question generation), qa (the
\* extractive answer per probe), final (the synthesis).  queried records that
\* collection.query was called.
query_rag_pipeline(question, has_collection, role, m) ==
    IF ~(qa_pipeline /\ llm_pipeline /\ embedding_model /\ chroma_client)
    THEN PipelineResult("Core models not initialized.", Answer("", ""), <<>>, FALSE, {})
    ELSE IF ~relevance_checker_pipeline
    THEN PipelineResult("Relevance checker pipeline not initialized.",
                        Answer("", ""), <<>>, FALSE, {})
    ELSE IF ~is_query_relevant_for_role(role, m.scores)
    THEN PipelineResult("", Answer("off_topic", role), <<>>, FALSE, {})
    ELSE IF ~has_collection
    THEN PipelineResult("collection does not exist", Answer("", ""), <<>>, FALSE, {})
    ELSE IF m.retrieved = <<>>
    THEN PipelineResult("", Answer("no_relevant_information", ""), <<>>, TRUE, {})
    ELSE LET sub_questions == Append(SubQuestions(m.generated_text), question)
             extracted_answers == ExtractedAnswers(Len(sub_questions), m.qa)
         IN  IF extracted_answers = {}
             THEN PipelineResult("", Answer("no_confident_answer", role), <<>>, TRUE, {})
             ELSE PipelineResult("", Answer("synthesized", m.final),
                                 UniqueSources(m.retrieved), TRUE, extracted_answers)

-----------------------------------------------------------------------------
(* main.py: POST /upload                                                   *)

Admit(p, name) ==
    /\ pc[p] = "idle"
    /\ nreq < MaxRequests
    /\ nreq' = nreq + 1
    /\ op' = [op EXCEPT ![p] = name]

Respond(p, r) ==
    /\ resp' = [resp EXCEPT ![p] = r]
    /\ pc' = [pc EXCEPT ![p] = "idle"]

\* lines 82-88
upload_documents(p) ==
    /\ Admit(p, "upload")
    /\ nuploads < MaxUploads
    /\ nuploads' = nuploads + 1
    /\ \E role \in RoleInputs, files \in UploadInputs :
         IF role = ""
         THEN /\ Respond(p, HTTPException(400, "A role must be selected."))
              /\ loc' = [loc EXCEPT ![p] = Locals]
         ELSE /\ loc' = [loc EXCEPT ![p] = [Locals EXCEPT !.role = role, !.files = files]]
              /\ pc' = [pc EXCEPT ![p] = "save"]
              /\ UNCHANGED resp
    /\ UNCHANGED <<initialized, documents, collections, chat_histories, uuids,
                   firstRun, ingested, deleted, q_in, q_out,
                   chunk_in, chunk_out>>

\* lines 90-97, one file: open() creates the file, then the bytes are written,
\* then the path is appended to saved_files
save_file(p) ==
    /\ pc[p] = "save"
    /\ LET k == Len(loc[p].saved_files) + 1
           file == loc[p].files[k]
           file_path == FilePath(uuids + 1, file.filename)
       IN  /\ uuids' = uuids + 1
           /\ \E outcome \in {"saved", "open_raises", "write_raises"} :
                CASE outcome = "saved" ->
                       /\ documents' = Put(documents, file_path, file.content)
                       /\ loc' = [loc EXCEPT
                            ![p].saved_files = Append(@, file_path),
                            ![p].filenames = Append(@, file.filename),
                            ![p].written = @ \cup {file_path}]
                       /\ pc' = [pc EXCEPT ![p] =
                            IF k = Len(loc[p].files) THEN "chat_id" ELSE "save"]
                  [] outcome = "open_raises" ->
                       /\ UNCHANGED documents
                       /\ loc' = [loc EXCEPT ![p].exc = "open failed"]
                       /\ pc' = [pc EXCEPT ![p] = "except"]
                  [] OTHER ->
                       /\ documents' = Put(documents, file_path, "partial")
                       /\ loc' = [loc EXCEPT ![p].exc = "write failed",
                                             ![p].written = @ \cup {file_path}]
                       /\ pc' = [pc EXCEPT ![p] = "except"]
    /\ UNCHANGED <<initialized, collections, chat_histories, nreq, nuploads, op, resp,
                   firstRun, ingested, deleted, q_in, q_out,
                   chunk_in, chunk_out>>

\* lines 99-101: chat_id = str(uuid.uuid4()), then the ingestion is called
new_chat_id(p) ==
    /\ pc[p] = "chat_id"
    /\ uuids' = uuids + 1
    /\ loc' = [loc EXCEPT ![p].chat_id = uuids + 1, ![p].ingest = "running"]
    /\ pc' = [pc EXCEPT ![p] = "process"]
    /\ UNCHANGED <<initialized, documents, collections, chat_histories, nreq, nuploads,
                   op, resp, firstRun, ingested, deleted, q_in, q_out,
                   chunk_in, chunk_out>>

Row(chat_id, filenames, role, history) ==
    [chat_id |-> chat_id, filenames |-> filenames, role |-> role, history |-> history]

\* lines 103-112: INSERT, commit, return
insert_session(p) ==
    /\ pc[p] = "insert"
    /\ \E fails \in BOOLEAN :
         IF fails \/ HasRow(loc[p].chat_id)
         THEN /\ loc' = [loc EXCEPT ![p].exc = "insert failed"]
              /\ pc' = [pc EXCEPT ![p] = "except"]
              /\ UNCHANGED <<chat_histories, resp>>
         ELSE /\ chat_histories' = Append(chat_histories,
                     Row(loc[p].chat_id, loc[p].filenames, loc[p].role, <<>>))
              /\ Respond(p, [status |-> 200,
                             body |-> [chat_id |-> loc[p].chat_id,
                                       filenames |-> loc[p].filenames,
                                       role |-> loc[p].role]])
              /\ loc' = [loc EXCEPT ![p] = Returned(loc[p])]
    /\ UNCHANGED <<initialized, documents, collections, uuids, nreq, nuploads, op,
                   firstRun, ingested, deleted, q_in, q_out,
                   chunk_in, chunk_out>>

\* lines 113-119: remove the files in saved_files, answer 500
upload_except(p) ==
    /\ pc[p] = "except"
    /\ documents' = [f \in DOMAIN documents \ Range(loc[p].saved_files) |-> documents[f]]
    /\ Respond(p, HTTPException(500, loc[p].exc))
    /\ loc' = [loc EXCEPT ![p] = Returned(loc[p])]
    /\ UNCHANGED <<initialized, collections, chat_histories, uuids, nreq, nuploads, op,
                   firstRun, ingested, deleted, q_in, q_out,
                   chunk_in, chunk_out>>

-----------------------------------------------------------------------------
(* main.py: GET /chats                                                     *)

Reverse(s) == [i \in 1..Len(s) |-> s[Len(s) + 1 - i]]

\* lines 124-129: ORDER BY rowid DESC, rows with an empty role left out
SessionList ==
    LET rows == SelectSeq(Reverse(chat_histories), LAMBDA r : r.role # "")
    IN  [i \in 1..Len(rows) |->
           [chat_id |-> rows[i].chat_id, filenames |-> rows[i].filenames,
            role |-> rows[i].role]]

get_all_chat_sessions(p) ==
    /\ Admit(p, "chats")
    /\ Respond(p, [status |-> 200, body |-> SessionList])
    /\ loc' = [loc EXCEPT ![p] = Locals]
    /\ UNCHANGED <<initialized, documents, collections, chat_histories, uuids,
                   nuploads, firstRun, ingested, deleted, q_in, q_out,
                   chunk_in, chunk_out>>

-----------------------------------------------------------------------------
(* main.py: POST /chat                                                     *)

\* the chat ids a client may send: one no upload ever drew, and those drawn
ChatIdInputs ==
    {0} \cup {loc[q].chat_id : q \in Procs} \cup DOMAIN ingested \cup deleted
        \cup {chat_histories[i].chat_id : i \in 1..Len(chat_histories)}

\* the rankings collection.query may return: the n_results nearest records,
\* in an order the embeddings decide
TopK(records) ==
    LET n == Len(records)
        k == IF n < N_RESULTS THEN n ELSE N_RESULTS
    IN  {[i \in 1..k |-> records[f[i]]] :
            f \in {g \in [1..k -> 1..n] : \A i, j \in 1..k : i # j => g[i] # g[j]}}

\* what the models answer during one /chat request
ChatModelOutputs ==
    [scores : {<<20, 10, 5>>, <<21, 10, 5>>},
     generated_text : {<<>>},
     qa : {<< [score |-> 11, answer |-> <<"2", "0", "%">>] >>,
           << [score |-> 10, answer |-> <<"2", "0", "%">>] >>},
     final : {"answer"}]

\* lines 134-142: the SELECT and the 404
chat_with_document(p) ==
    /\ Admit(p, "chat")
    /\ \E chat_id \in ChatIdInputs, message \in Messages :
         LET request == [Locals EXCEPT
                 !.chat_id = chat_id, !.message = message,
                 !.after_delete = chat_id \in deleted,
                 !.ready = /\ chat_id \in DOMAIN ingested
                           /\ chat_id \in DOMAIN collections
                           /\ collections[chat_id] = ingested[chat_id]]
         IN  IF ~HasRow(chat_id)
             THEN /\ Respond(p, HTTPException(404, "Chat session not found."))
                  /\ loc' = [loc EXCEPT ![p] = Returned(request)]
             ELSE /\ loc' = [loc EXCEPT ![p] =
                        [request EXCEPT !.current_history = RowOf(chat_id).history,
                                        !.role = RowOf(chat_id).role]]
                  /\ pc' = [pc EXCEPT ![p] = "query"]
                  /\ UNCHANGED resp
    /\ UNCHANGED <<initialized, documents, collections, chat_histories, uuids,
                   nuploads, firstRun, ingested, deleted, q_in, q_out,
                   chunk_in, chunk_out>>

\* the user turn of line 153 left out
AppendTurnsAssistantOnly(current_history, message, response) ==
    Append(current_history,
           [role |-> "assistant", content |-> response.answer,
            sources |-> response.sources])

\* lines 153-154: the new turn is appended to the transcript read by the SELECT
AppendTurns(current_history, message, response) ==
    Append(Append(current_history, [role |-> "user", content |-> message]),
           [role |-> "assistant", content |-> response.answer,
            sources |-> response.sources])

\* lines 144-154 and 163-165: the pipeline runs, the two turns are appended
\* to the transcript read by the SELECT
chat_query(p) ==
    /\ pc[p] = "query"
    /\ LET has_collection == loc[p].chat_id \in DOMAIN collections
           records == IF has_collection THEN collections[loc[p].chat_id] ELSE <<>>
       IN  \E m0 \in ChatModelOutputs, retrieved \in TopK(records), raises \in BOOLEAN :
             LET m == [scores |-> m0.scores, retrieved |-> retrieved,
                       generated_text |-> m0.generated_text, qa |-> m0.qa,
                       final |-> m0.final]
                 r == query_rag_pipeline(loc[p].message, has_collection, loc[p].role, m)
             IN  IF raises \/ r.exc # ""
                 THEN /\ Respond(p, HTTPException(500, "Failed to process chat message"))
                      /\ loc' = [loc EXCEPT ![p] = Returned(loc[p])]
                 ELSE /\ loc' = [loc EXCEPT
                            ![p].response = [answer |-> r.answer, sources |-> r.sources],
                            ![p].current_history =
                                AppendTurns(@, loc[p].message,
                                            [answer |-> r.answer, sources |-> r.sources])]
                      /\ pc' = [pc EXCEPT ![p] = "update"]
                      /\ UNCHANGED resp
    /\ UNCHANGED <<initialized, documents, collections, chat_histories, uuids, nreq,
                   nuploads, op, firstRun, ingested, deleted, q_in, q_out,
                   chunk_in, chunk_out>>

\* lines 156-162: UPDATE ... SET history = ? WHERE chat_id = ?, commit, return
chat_update(p) ==
    /\ pc[p] = "update"
    /\ \E fails \in BOOLEAN :
         IF fails
         THEN /\ Respond(p, HTTPException(500, "Failed to process chat message"))
              /\ UNCHANGED chat_histories
         ELSE /\ chat_histories' =
                    [i \in 1..Len(chat_histories) |->
                        IF chat_histories[i].chat_id = loc[p].chat_id
                        THEN [chat_histories[i] EXCEPT !.history = loc[p].current_history]
                        ELSE chat_histories[i]]
              /\ Respond(p, [status |-> 200, body |-> loc[p].response])
    /\ loc' = [loc EXCEPT ![p] = Returned(loc[p])]
    /\ UNCHANGED <<initialized, documents, collections, uuids, nreq, nuploads, op,
                   firstRun, ingested, deleted, q_in, q_out,
                   chunk_in, chunk_out>>

-----------------------------------------------------------------------------
(* main.py: DELETE /chat/{chat_id}                                         *)

\* the DELETE never committed
DeleteRowsUncommitted(chat_id) == chat_histories

\* lines 190-191: DELETE FROM chat_histories WHERE chat_id = ?, commit
DeleteRows(chat_id) == SelectSeq(chat_histories, LAMBDA r : r.chat_id # chat_id)

\* the cleanup failure answered as an error
PartialAsError == [status |-> 500, body |-> "vector collection cleanup failed"]

\* line 203
PartialResponse == [status |-> 200, body |-> "partial"]

\* lines 188-195 and 204-205: DELETE, commit, rowcount
delete_chat_session(p) ==
    /\ Admit(p, "delete")
    /\ \E chat_id \in ChatIdInputs :
         LET deleted_rows == Cardinality(RowsOf(chat_id))
         IN  /\ chat_histories' = DeleteRows(chat_id)
             /\ loc' = [loc EXCEPT ![p] = [Locals EXCEPT !.chat_id = chat_id]]
             /\ IF deleted_rows > 0
                THEN /\ pc' = [pc EXCEPT ![p] = "delete_collection"]
                     /\ UNCHANGED resp
                ELSE Respond(p, HTTPException(404, "Chat session not found."))
    /\ UNCHANGED <<initialized, documents, collections, uuids, nuploads, firstRun,
                   ingested, deleted, q_in, q_out,
                   chunk_in, chunk_out>>

\* lines 196-203: the collection is deleted; a failure is answered "partial"
delete_collection(p) ==
    /\ pc[p] = "delete_collection"
    /\ \E fails \in BOOLEAN :
         IF chroma_client /\ (fails \/ loc[p].chat_id \notin DOMAIN collections)
         THEN /\ UNCHANGED collections
              /\ loc' = [loc EXCEPT ![p].cleanup_failed = TRUE]
              /\ Respond(p, PartialResponse)
         ELSE /\ collections' = IF chroma_client THEN Drop(collections, loc[p].chat_id)
                                ELSE collections
              /\ UNCHANGED loc
              /\ Respond(p, [status |-> 200, body |-> "success"])
    /\ deleted' = deleted \cup {loc[p].chat_id}
    /\ UNCHANGED <<initialized, documents, chat_histories, uuids, nreq, nuploads, op,
                   firstRun, ingested, q_in, q_out,
                   chunk_in, chunk_out>>

-----------------------------------------------------------------------------
(* The service: workers handling requests.                                 *)

Init ==
    /\ initialized \in 0..NUM_CLIENTS
    /\ documents = Empty
    /\ collections = Empty
    /\ chat_histories = <<>>
    /\ uuids = 0
    /\ nreq = 0
    /\ nuploads = 0
    /\ pc = [p \in Procs |-> "idle"]
    /\ op = [p \in Procs |-> "none"]
    /\ loc = [p \in Procs |-> Locals]
    /\ resp = [p \in Procs |-> NoResponse]
    /\ firstRun = Empty
    /\ ingested = Empty
    /\ deleted = {}
    /\ q_in = <<>>
    /\ q_out = <<>>
    /\ chunk_in = <<>>
    /\ chunk_out = <<>>

Next ==
    \E p \in Procs :
        \/ upload_documents(p)
        \/ save_file(p)
        \/ new_chat_id(p)
        \/ op[p] = "upload" /\ process_documents_and_create_collection(p)
        \/ insert_session(p)
        \/ upload_except(p)
        \/ get_all_chat_sessions(p)
        \/ chat_with_document(p)
        \/ chat_query(p)
        \/ chat_update(p)
        \/ delete_chat_session(p)
        \/ delete_collection(p)

Spec == Init /\ [][Next]_vars


-----------------------------------------------------------------------------
(* The ingestion function called on its own, one call after another, on    *)
(* files already in the documents directory.                               *)

IngestNames == {1}

StoredFiles ==
    [f \in {FilePath(0, c) : c \in Readable} |-> f[2]]

\* the document sets ingested: stored files, each at most once, in any order
DocumentSets ==
    {files \in SeqsOf(DOMAIN documents, 1, MaxFiles) :
        \A i, j \in 1..Len(files) : i # j => files[i] # files[j]}

call_process_documents(p) ==
    /\ \A q \in Procs : pc[q] = "idle"
    /\ nreq < MaxIngestCalls
    /\ nreq' = nreq + 1
    /\ op' = [op EXCEPT ![p] = "ingest"]
    /\ \E files \in DocumentSets, collection_name \in IngestNames :
         loc' = [loc EXCEPT ![p] = [Locals EXCEPT !.saved_files = files,
                                                  !.chat_id = collection_name,
                                                  !.ingest = "running"]]
    /\ pc' = [pc EXCEPT ![p] = "process"]
    /\ UNCHANGED <<initialized, documents, collections, chat_histories, uuids,
                   nuploads, resp, firstRun, ingested, deleted, q_in, q_out,
                   chunk_in, chunk_out>>

InitIngest ==
    /\ initialized \in 0..NUM_CLIENTS
    /\ documents = StoredFiles
    /\ collections = Empty
    /\ chat_histories = <<>>
    /\ uuids = 0
    /\ nreq = 0
    /\ nuploads = 0
    /\ pc = [p \in Procs |-> "idle"]
    /\ op = [p \in Procs |-> "none"]
    /\ loc = [p \in Procs |-> Locals]
    /\ resp = [p \in Procs |-> NoResponse]
    /\ firstRun = Empty
    /\ ingested = Empty
    /\ deleted = {}
    /\ q_in = <<>>
    /\ q_out = <<>>
    /\ chunk_in = <<>>
    /\ chunk_out = <<>>

NextIngest ==
    \/ call_process_documents(1)
    \/ process_documents_and_create_collection(1)

SpecIngest == InitIngest /\ [][NextIngest]_vars

-----------------------------------------------------------------------------
(* The chunking of one file's text on its own.                             *)

\* lengths of the runs of a page text; with the 16 characters of the page
\* marker they put the end of the text on and just past the window starts
RunLengths == {1, 184, 784, 800}

\* a run: one character repeated
Runs == {Rep(c, n) : c \in {"x", " "}, n \in RunLengths}

\* lines 94-100 for a file of one page: the page text, up to MaxRuns runs,
\* followed by the page marker
PageTexts == {Concat(rs) \o PageMarker(1) : rs \in SeqsOf(Runs, 0, MaxRuns)}

InitChunk ==
    /\ initialized = NUM_CLIENTS
    /\ documents = Empty
    /\ collections = Empty
    /\ chat_histories = <<>>
    /\ uuids = 0
    /\ nreq = 0
    /\ nuploads = 0
    /\ pc = [p \in Procs |-> "idle"]
    /\ op = [p \in Procs |-> "none"]
    /\ loc = [p \in Procs |-> Locals]
    /\ resp = [p \in Procs |-> NoResponse]
    /\ firstRun = Empty
    /\ ingested = Empty
    /\ deleted = {}
    /\ q_in = <<>>
    /\ q_out = <<>>
    /\ chunk_in \in PageTexts
    /\ chunk_out = <<>>

\* lines 102-105 for one file: a blank text is skipped, any other is chunked
chunk_text ==
    /\ chunk_out = <<>>
    /\ chunk_out' = <<IF IsBlank(chunk_in) THEN <<>> ELSE Chunks(chunk_in)>>
    /\ UNCHANGED <<initialized, documents, collections, chat_histories, uuids, nreq,
                   nuploads, pc, op, loc, resp, firstRun, ingested, deleted, q_in, q_out,
                   chunk_in>>

NextChunk == chunk_text

SpecChunk == InitChunk /\ [][NextChunk]_vars

-----------------------------------------------------------------------------
(* The query pipeline called on its own.                                   *)

\* what the extractive answerer may return for one probe
QAResults ==
    [score : {QA_THRESHOLD + 1}, answer : {<<"A">>, <<"a">>, <<"A", " ">>, <<".">>}]
    \cup [score : {QA_THRESHOLD}, answer : {<<"A">>}]

\* texts the sub-question generation may return: up to MaxLines lines, each
\* a question, a statement or blank
GeneratedLines == {<<" ", "v", "?", " ">>, <<"w">>, <<" ">>}

RECURSIVE Join(_, _)
Join(lines, sep) ==
    IF lines = <<>> THEN <<>>
    ELSE IF Len(lines) = 1 THEN lines[1]
    ELSE lines[1] \o <<sep>> \o Join(Tail(lines), sep)

GeneratedTexts == {Join(ls, "\n") : ls \in SeqsOf(GeneratedLines, 0, MaxLines)}

\* metadata of retrieved chunks
Metadatas ==
    [id : {ChunkId(1, 1)}, source_file : {"X", "Y"},
     doc_type : DocTypes, doc : {"short"}, start : {0}]

TopScores == {<<RELEVANCE_THRESHOLD - 1, 10, 5>>, <<RELEVANCE_THRESHOLD, 10, 5>>,
              <<RELEVANCE_THRESHOLD + 1, 10, 5>>}

OneAnswer == [i \in 1..MaxLines + 1 |-> [score |-> QA_THRESHOLD + 1, answer |-> <<"A">>]]

\* metadata of the chunks retrieved in the source-order calls: three files,
\* and chunks of one file name may carry different doc_types
RetrievedMetadatas ==
    [id : {ChunkId(1, 1)}, source_file : {"X", "Y", "Z"},
     doc_type : DocTypes, doc : {"short"}, start : {0}]

\* the source-order calls: every retrieval order of up to MaxRetrieved chunks
\* behind an open gate, with one answer above the threshold
SourceOrderInputs ==
    [question : {"q"}, role : {"Tech Lead"}, has_collection : {TRUE},
     m : [scores : {<<RELEVANCE_THRESHOLD + 1, 10, 5>>},
          retrieved : SeqsOf(RetrievedMetadatas, 1, MaxRetrieved),
          generated_text : {<<>>}, qa : {OneAnswer}, final : {"answer"}]]

\* the calls tried: the gate and the retrieval varied with one answer, the
\* generated text and the answers varied behind an open gate, and the
\* source-order calls
QueryInputs ==
    [question : {"q"}, role : {"Tech Lead", "Intern"}, has_collection : BOOLEAN,
     m : [scores : TopScores, retrieved : SeqsOf(Metadatas, 0, 2),
          generated_text : {<<>>}, qa : {OneAnswer}, final : {"answer"}]]
    \cup
    [question : {"q"}, role : {"Tech Lead"}, has_collection : {TRUE},
     m : [scores : {<<RELEVANCE_THRESHOLD + 1, 10, 5>>},
          retrieved : SeqsOf(Metadatas, 1, 1),
          generated_text : GeneratedTexts,
          qa : [1..MaxLines + 1 -> QAResults], final : {"answer"}]]
    \cup SourceOrderInputs

call_query_rag_pipeline ==
    /\ q_in = <<>>
    /\ \E in \in QueryInputs :
         /\ q_in' = <<in>>
         /\ q_out' = <<query_rag_pipeline(in.question, in.has_collection, in.role, in.m)>>
    /\ UNCHANGED <<initialized, documents, collections, chat_histories, uuids, nreq,
                   nuploads, pc, op, loc, resp, firstRun, ingested, deleted,
                   chunk_in, chunk_out>>

NextQuery == call_query_rag_pipeline

SpecQuery == Init /\ [][NextQuery]_vars


-----------------------------------------------------------------------------
(* Properties.                                                             *)

\* a /chat request of worker p got past the 404 of line 138
ChatServed(p) ==
    /\ op[p] = "chat"
    /\ \/ pc[p] \in {"query", "update"}
       \/ pc[p] = "idle" /\ resp[p].status # 404

\* C1: a /chat request is served by the query pipeline, rather than answered
\* 404, only if at its SELECT the ingestion for that chat id had returned
\* successfully and the collection held all of its chunks; whatever the
\* interleaving of uploads, deletes and chats.
C1_ChatServedOnlyAfterIngestion ==
    \A p \in Procs : ChatServed(p) => loc[p].ready

C1_Witness ==
    \E p \in Procs : ChatServed(p) /\ pc[p] = "idle" /\ resp[p].status = 200

\* the upload of worker p called the ingestion and the call has ended
IngestionEnded(p) ==
    /\ op[p] = "upload"
    /\ loc[p].ingest \in {"returned", "raised"}
    /\ pc[p] \in {"insert", "except"}

\* C2: once process_documents_and_create_collection has ended, by returning
\* or by raising, the collection of that name holds every accumulated chunk
\* or does not exist; it is never left empty or partly filled.
C2_CollectionCompleteOrAbsent ==
    \A p \in Procs :
        IngestionEnded(p) =>
            \/ loc[p].chat_id \notin DOMAIN collections
            \/ /\ collections[loc[p].chat_id] # <<>>
               /\ collections[loc[p].chat_id] = loc[p].all_chunks

\* C3: once a DELETE of a session has answered 200, the session is not in
\* the list /chats returns, and every /chat request arriving later for that
\* chat id is answered 404.
C3_DeletedSessionStaysGone ==
    /\ \A id \in deleted :
          /\ ~HasRow(id)
          /\ \A i \in 1..Len(SessionList) : SessionList[i].chat_id # id
    /\ \A p \in Procs :
          (op[p] = "chat" /\ loc[p].after_delete) =>
              (pc[p] = "idle" /\ resp[p].status = 404)

C3_Witness ==
    \E p \in Procs :
        op[p] = "chat" /\ loc[p].after_delete /\ pc[p] = "idle" /\ resp[p].status = 404

\* C4: every write of a session's transcript keeps the transcript stored
\* before it as a prefix, so that no turn written by a completed request is
\* lost or overwritten by another request.
C4_TranscriptOnlyGrows ==
    [][\A i \in 1..Len(chat_histories) : \A j \in 1..Len(chat_histories') :
          chat_histories[i].chat_id = chat_histories'[j].chat_id =>
              IsPrefix(chat_histories[i].history, chat_histories'[j].history)]_vars

\* C5: when /upload answers an ingestion failure, every file written to the
\* documents directory for this attempt has been removed.
C5_FilesRemovedOnFailure ==
    \A p \in Procs :
        (op[p] = "upload" /\ pc[p] = "idle" /\ resp[p].status = 500) =>
            loc[p].written \cap DOMAIN documents = {}

\* every submitted file is readable and yields only whitespace
AllFilesBlank(files) ==
    \A k \in 1..Len(files) :
        /\ ExtractText(files[k].content).ok
        /\ IsBlank(ExtractText(files[k].content).text)

NoTextError == "No text could be extracted from the provided documents."

ChunkIds(records) == [i \in 1..Len(records) |-> records[i].id]

\* C7: an ingestion that completes under a collection name leaves the
\* collection with the same chunk ids, and as many, as the first ingestion
\* of the same files under that name left: the old collection is replaced,
\* never added to.
C7_ReingestionReplaces ==
    (op[1] = "ingest" /\ loc[1].ingest = "returned") =>
        LET name == loc[1].chat_id
            key == <<name, loc[1].saved_files>>
        IN  /\ key \in DOMAIN firstRun
            /\ name \in DOMAIN collections
            /\ ChunkIds(collections[name]) = ChunkIds(firstRun[key].records)
            /\ Len(collections[name]) = Len(firstRun[key].records)

C7_Witness ==
    /\ op[1] = "ingest" /\ loc[1].ingest = "returned"
    /\ <<loc[1].chat_id, loc[1].saved_files>> \in DOMAIN firstRun
    /\ firstRun[<<loc[1].chat_id, loc[1].saved_files>>].runs >= 2
    /\ Len(collections[loc[1].chat_id]) >= 2

\* C8: when DELETE finds the session and deleting its collection fails, the
\* request still answers 200, with status "partial", and the session record
\* is gone; when the cleanup succeeds the status is "success".
C8_PartialOnCleanupFailure ==
    \A p \in Procs :
        (op[p] = "delete" /\ pc[p] = "idle") =>
            /\ loc[p].cleanup_failed =>
                  /\ resp[p] = [status |-> 200, body |-> "partial"]
                  /\ ~HasRow(loc[p].chat_id)
            /\ (resp[p].status = 200 /\ ~loc[p].cleanup_failed) =>
                  resp[p].body = "success"

C8_Witness ==
    \E p \in Procs :
        /\ op[p] = "delete" /\ pc[p] = "idle" /\ loc[p].cleanup_failed
        /\ resp[p] = [status |-> 200, body |-> "partial"]

\* the direct call was made with every client set up
Called == q_in # <<>> /\ chroma_client

\* C9: for a role of ROLE_TOPICS, a highest topic score <= 0.2 makes the
\* pipeline return the off-topic answer with no sources before any
\* retrieval; a highest score > 0.2 makes it go on to the retrieval.
C9_RelevanceGate ==
    (Called /\ q_in[1].role \in DOMAIN ROLE_TOPICS) =>
        IF q_in[1].m.scores[1] <= RELEVANCE_THRESHOLD
        THEN q_out[1] =
               PipelineResult("", Answer("off_topic", q_in[1].role), <<>>, FALSE, {})
        ELSE /\ q_out[1].answer.kind # "off_topic"
             /\ IF q_in[1].has_collection THEN q_out[1].queried
                ELSE q_out[1].exc = "collection does not exist"

C9_Witness ==
    /\ Called /\ q_in[1].role \in DOMAIN ROLE_TOPICS
    /\ q_in[1].m.scores[1] = RELEVANCE_THRESHOLD
    /\ q_out[1].answer.kind = "off_topic"

\* the probes got the answers "A", "a" and "A ", each above the threshold
AnswersAaA ==
    /\ Called /\ q_out[1].queried /\ q_in[1].m.retrieved # <<>>
    /\ LET n == Len(SubQuestions(q_in[1].m.generated_text)) + 1
       IN  /\ {q_in[1].m.qa[i].answer : i \in 1..n} = {<<"A">>, <<"a">>, <<"A", " ">>}
           /\ \A i \in 1..n : q_in[1].m.qa[i].score > QA_THRESHOLD

\* C10 as stated: of the extracted answers "A", "a" and "A ", only "A" is
\* left in the set.
C10_OnlyARemains ==
    AnswersAaA => q_out[1].quotes = {<<"A">>}

\* C10 as the code has it: of the extracted answers "A", "a" and "A ", the
\* set keeps "A" and "a"; "A " is trimmed to "A", the case is not folded.
C10_TrimmedExactEquality ==
    AnswersAaA => q_out[1].quotes = {<<"A">>, <<"a">>}

C10_Witness ==
    AnswersAaA /\ q_out[1].quotes = {<<"A">>, <<"a">>}

\* the call returned a synthesized answer
Synthesized == Called /\ q_out[1].exc = "" /\ q_out[1].answer.kind = "synthesized"

\* the position in the retrieval order where file f first occurs
FirstOccurrence(retrieved, f) ==
    CHOOSE k \in 1..Len(retrieved) :
        /\ retrieved[k].source_file = f
        /\ \A j \in 1..(k - 1) : retrieved[j].source_file # f

\* C11: the sources returned with a synthesized answer hold each distinct
\* source file of the retrieved chunks exactly once, in the order of the
\* files' first occurrences in the retrieval order, each entry with the
\* doc_type of the file's first-occurring chunk.
C11_SourcesFirstOccurrenceOrder ==
    Synthesized =>
        LET retrieved == q_in[1].m.retrieved
            sources == q_out[1].sources
        IN  /\ {sources[i].source_file : i \in 1..Len(sources)}
                  = {retrieved[k].source_file : k \in 1..Len(retrieved)}
            /\ \A i, j \in 1..Len(sources) :
                  i < j =>
                    /\ sources[i].source_file # sources[j].source_file
                    /\ FirstOccurrence(retrieved, sources[i].source_file)
                         < FirstOccurrence(retrieved, sources[j].source_file)
            /\ \A i \in 1..Len(sources) :
                  /\ DOMAIN sources[i] = {"source_file", "doc_type"}
                  /\ sources[i].doc_type =
                       retrieved[FirstOccurrence(retrieved, sources[i].source_file)].doc_type

\* retrieved files [X, Y, X, Z], the two chunks of X with different
\* doc_types, give the sources [X, Y, Z] with the doc_type of the first X
C11_Witness ==
    /\ Synthesized
    /\ LET retrieved == q_in[1].m.retrieved
       IN  /\ [k \in 1..Len(retrieved) |-> retrieved[k].source_file] = <<"X", "Y", "X", "Z">>
           /\ retrieved[1].doc_type # retrieved[3].doc_type
           /\ [i \in 1..Len(q_out[1].sources) |-> q_out[1].sources[i].source_file]
                 = <<"X", "Y", "Z">>
           /\ q_out[1].sources[1].doc_type = retrieved[1].doc_type

\* the chunking was applied to the text chunk_in
Chunked == chunk_out # <<>>

\* position pos (from 0) of the text lies within the generated chunk c
Within(pos, c) == c.start <= pos /\ pos < c.start + Len(c.chunk)

Covered(pos) == \E k \in 1..Len(chunk_out[1]) : Within(pos, chunk_out[1][k])

NoBlankChunk == \A k \in 1..Len(chunk_out[1]) : ~IsBlank(chunk_out[1][k].chunk)

\* C12 as stated: every character position 0..L-1 of the text lies within
\* at least one generated chunk, and no generated chunk is all whitespace.
C12_EveryPositionCovered ==
    Chunked =>
        /\ \A pos \in 0..(Len(chunk_in) - 1) : Covered(pos)
        /\ NoBlankChunk

\* C12 as the code has it: every position that holds a character other
\* than whitespace lies within at least one generated chunk (the positions
\* left out are whitespace inside dropped all-whitespace windows), every
\* generated chunk is the text from its offset on, at most WINDOW long, and
\* no generated chunk is all whitespace.
C12_NonBlankPositionsCovered ==
    Chunked =>
        /\ \A pos \in 0..(Len(chunk_in) - 1) :
              chunk_in[pos + 1] \notin Whitespace => Covered(pos)
        /\ \A k \in 1..Len(chunk_out[1]) :
              LET c == chunk_out[1][k]
              IN  /\ Len(c.chunk) <= WINDOW
                  /\ \A j \in 1..Len(c.chunk) : c.chunk[j] = chunk_in[c.start + j]
        /\ NoBlankChunk

\* a text whose first window is all whitespace: the window is dropped, the
\* next one is kept, and the positions before it lie in no chunk
C12_Witness ==
    /\ Chunked
    /\ Len(chunk_in) > WINDOW
    /\ IsBlank(Slice(chunk_in, 0, WINDOW))
    /\ Len(chunk_out[1]) >= 1
    /\ chunk_out[1][1].start = STRIDE
    /\ ~Covered(0)

\* a transcript of even length: user turn, assistant turn, user turn, ...
Alternates(history) ==
    /\ Len(history) % 2 = 0
    /\ \A k \in 1..Len(history) :
          history[k].role = IF k % 2 = 1 THEN "user" ELSE "assistant"

AllTranscriptsAlternate ==
    \A i \in 1..Len(chat_histories) : Alternates(chat_histories[i].history)

\* this step is the /chat request of worker p answering 200
ChatSucceeds(p) ==
    /\ op[p] = "chat" /\ pc[p] = "update"
    /\ pc'[p] = "idle" /\ resp'[p].status = 200

\* this step is the /chat request of worker p answering an error: the 404
\* of an unknown session id, or the 500 of an exception in the pipeline or
\* in the UPDATE
ChatFails(p) ==
    /\ op'[p] = "chat" /\ pc'[p] = "idle" /\ resp'[p].status # 200
    /\ \/ pc[p] \in {"query", "update"}
       \/ pc[p] = "idle" /\ nreq' # nreq /\ pc' = pc

\* the transcript written is some transcript followed by the user turn of
\* p's message and the assistant turn of the answer p is sent
OneTurnPairWritten(p, history) ==
    /\ Len(history) >= 2
    /\ history = loc[p].current_history
    /\ SubSeq(history, Len(history) - 1, Len(history)) =
          <<[role |-> "user", content |-> loc[p].message],
            [role |-> "assistant", content |-> resp'[p].body.answer,
             sources |-> resp'[p].body.sources]>>

\* a step changes a stored transcript only as a /chat request answering 200
\* that writes one user turn and one assistant turn at its end; a /chat
\* request answering 200 leaves the transcript of its session so written,
\* and one answering an error leaves every stored transcript as it was
ChatWritesOneTurnPair ==
    /\ \A i \in 1..Len(chat_histories) : \A j \in 1..Len(chat_histories') :
          (/\ chat_histories[i].chat_id = chat_histories'[j].chat_id
           /\ chat_histories[i].history # chat_histories'[j].history) =>
              \E p \in Procs :
                  /\ ChatSucceeds(p)
                  /\ loc[p].chat_id = chat_histories'[j].chat_id
                  /\ OneTurnPairWritten(p, chat_histories'[j].history)
    /\ \A p \in Procs :
          /\ ChatSucceeds(p) =>
                \A j \in 1..Len(chat_histories') :
                    chat_histories'[j].chat_id = loc[p].chat_id =>
                        OneTurnPairWritten(p, chat_histories'[j].history)
          /\ ChatFails(p) => chat_histories' = chat_histories

\* C13: in every reachable state each stored session transcript has even
\* length and alternates user turn, assistant turn, starting with a user
\* turn; a /chat request that succeeds writes exactly one user turn followed
\* by one assistant turn, and one that fails (unknown session id, or an
\* exception in the query pipeline) leaves the stored transcript unchanged.
C13_TranscriptAlternates ==
    /\ []AllTranscriptsAlternate
    /\ [][ChatWritesOneTurnPair]_vars

\* a session whose transcript holds two turn pairs, written by two /chat
\* requests that succeeded
C13_Witness ==
    \E i \in 1..Len(chat_histories) :
        /\ Len(chat_histories[i].history) = 4
        /\ Alternates(chat_histories[i].history)
        /\ \E p \in Procs : op[p] = "chat" /\ pc[p] = "idle" /\ resp[p].status = 200

=============================================================================
